---- MODULE Spec2Model ----
(***************************************************************************)
(* PageRank (src/pagerank.py): transition_model, sample_pagerank and       *)
(* iterate_pagerank, driven over every small corpus.                       *)
(*                                                                         *)
(* Numbers.  Python floats are modelled as fixed-point numbers: the        *)
(* integer x stands for the real x / Scale, and a float division a / b is  *)
(* a \div b.  Scale is a multiple of 100 * k for every k the model divides *)
(* by, so 1/N, d/|L|, (1-d)/N and count/n are exact; the remaining         *)
(* rounding (rank / |out-links|, d * sum) is below 1/Scale per operation,  *)
(* far under the 1e-4 and 1e-3 thresholds the program and its              *)
(* specification speak of.  A damping factor is held in hundredths         *)
(* (0.85 is 85).                                                           *)
(*                                                                         *)
(* Pages.  A corpus of N pages is a function on 1..N; the index of a page  *)
(* is its position in the dictionary's iteration order.  Every graph on    *)
(* 1..N is drawn, so every iteration order of every graph is covered.      *)
(***************************************************************************)
EXTENDS Integers, FiniteSets, TLC

VARIABLES corpus, fn, pc, damping_factor, n, page, i, data, distribution,
          filename, previous_value, change, passes, prev, first

vars == <<corpus, fn, pc, damping_factor, n, page, i, data, distribution,
          filename, previous_value, change, passes, prev, first>>

(* ---- bounds ---- *)
MaxPages == 3
MaxLinks == 3
MaxSamples == 3
MaxPasses == 40

(* ---- program constants and number representation ---- *)
DAMPING == 85
Scale == 100 * 12000
Threshold == Scale \div 10000
Dampings == {0, 50, DAMPING, 100}
SampleDampings == {DAMPING, 100}
SampleCounts == (0 - 1) .. MaxSamples
None == [passes |-> 0 - 1]

RECURSIVE SumOver(_, _)
SumOver(f, S) ==
  IF S = {} THEN 0
  ELSE LET x == CHOOSE y \in S : TRUE IN f[x] + SumOver(f, S \ {x})

Total(f) == SumOver(f, DOMAIN f)
Abs(x) == IF x < 0 THEN 0 - x ELSE x
NumPages(c) == Cardinality(DOMAIN c)

(* the damping factor, given in hundredths, as a fixed-point number *)
Fx(d) == d * (Scale \div 100)

(* ---- crawl: the corpora the graph builder can produce ---- *)
Links(c) == SumOver([p \in DOMAIN c |-> Cardinality(c[p])], DOMAIN c)

Corpora ==
  UNION { { c \in [1..N -> SUBSET (1..N)] :
              /\ \A p \in 1..N : p \notin c[p]
              /\ Links(c) <= MaxLinks } : N \in 0..MaxPages }

(* ---- transition_model ---- *)
transition_model_no_dangling(c, p, d) ==
  [f \in DOMAIN c |->
     IF f \in c[p]
     THEN Fx(d) \div Cardinality(c[p]) + (Scale - Fx(d)) \div NumPages(c)
     ELSE (Scale - Fx(d)) \div NumPages(c)]

transition_model_self_excluded(c, p, d) ==
  IF c[p] = {}
  THEN [f \in DOMAIN c |-> IF f = p THEN 0 ELSE Scale \div NumPages(c)]
  ELSE [f \in DOMAIN c |->
          IF f \in c[p]
          THEN Fx(d) \div Cardinality(c[p]) + (Scale - Fx(d)) \div NumPages(c)
          ELSE (Scale - Fx(d)) \div NumPages(c)]

transition_model(c, p, d) ==
  IF c[p] = {}
  THEN [f \in DOMAIN c |-> Scale \div NumPages(c)]
  ELSE [f \in DOMAIN c |->
          IF f \in c[p]
          THEN Fx(d) \div Cardinality(c[p]) + (Scale - Fx(d)) \div NumPages(c)
          ELSE (Scale - Fx(d)) \div NumPages(c)]

(* random.choices(pages, weights): a page of positive weight (every weight *)
(* is non-negative for the damping factors in SampleDampings)              *)
Choices(w) == {q \in DOMAIN w : w[q] > 0}

(* ---- sample_pagerank ---- *)
CountersSeedTallied(c, seed) == [f \in DOMAIN c |-> IF f = seed THEN 1 ELSE 0]

(* lines 84-89: the counters once the seed page is chosen *)
Counters(c, seed) == [f \in DOMAIN c |-> 0]

(* lines 96-97: data[filename] / n *)
Normalise(dt, nn) == [f \in DOMAIN dt |-> (dt[f] * Scale) \div nn]

(* ---- iterate_pagerank ---- *)
(* line 122-126 for one page, reading the mapping dt *)
NewRank(c, d, dt, file) ==
  LET linking == {q \in DOMAIN c : file \in c[q]}
      sum_i == SumOver([q \in DOMAIN c |-> dt[q] \div Cardinality(c[q])], linking)
  IN  (Scale - Fx(d)) \div NumPages(c) + (d * sum_i) \div 100

(* lines 121-126: the pages are visited in dictionary order and each new   *)
(* value is stored into data before the next page is computed              *)
RECURSIVE UpdateFrom(_, _, _, _)
UpdateFrom(c, d, dt, k) ==
  IF k > NumPages(c) THEN dt
  ELSE UpdateFrom(c, d, [dt EXCEPT ![k] = NewRank(c, d, dt, k)], k + 1)

Pass(c, d, dt) == UpdateFrom(c, d, dt, 1)

ContinueSignSlip(ch) == ch > Threshold \/ ch > 0 - Threshold

(* line 118: the loop condition *)
Continue(ch) == ch > Threshold \/ ch < 0 - Threshold

(* ---- state machine ---- *)
Init ==
  /\ corpus \in Corpora
  /\ fn = "none"
  /\ pc = "idle"
  /\ damping_factor = 0
  /\ n = 0
  /\ page = 0
  /\ i = 0
  /\ data = << >>
  /\ distribution = << >>
  /\ filename = 0
  /\ previous_value = 0
  /\ change = 0
  /\ passes = 0
  /\ prev = << >>
  /\ first = None

CallTransitionModel ==
  /\ pc = "idle"
  /\ \E p \in DOMAIN corpus, d \in Dampings :
       /\ fn' = "transition_model"
       /\ page' = p
       /\ damping_factor' = d
       /\ distribution' = transition_model(corpus, p, d)
  /\ pc' = "returned"
  /\ UNCHANGED <<corpus, n, i, data, filename, previous_value, change,
                 passes, prev, first>>

CallSample ==
  /\ pc = "idle"
  /\ fn' = "sample_pagerank"
  /\ \E d \in SampleDampings, nn \in SampleCounts :
       /\ damping_factor' = d
       /\ n' = nn
  /\ i' = 0
  /\ IF NumPages(corpus) = 0
     THEN /\ pc' = "ValueError"
          /\ data' = << >>
          /\ page' = page
     ELSE /\ pc' = "loop"
          /\ \E seed \in DOMAIN corpus :
               /\ page' = seed
               /\ data' = Counters(corpus, seed)
  /\ UNCHANGED <<corpus, distribution, filename, previous_value, change,
                 passes, prev, first>>

SampleStep ==
  /\ fn = "sample_pagerank"
  /\ pc = "loop"
  /\ i < n
  /\ \E q \in Choices(transition_model(corpus, page, damping_factor)) :
       /\ page' = q
       /\ data' = [data EXCEPT ![q] = @ + 1]
  /\ i' = i + 1
  /\ UNCHANGED <<corpus, fn, pc, damping_factor, n, distribution, filename,
                 previous_value, change, passes, prev, first>>

SampleReturn ==
  /\ fn = "sample_pagerank"
  /\ pc = "loop"
  /\ i >= n
  /\ IF n = 0
     THEN /\ pc' = "ZeroDivisionError"
          /\ data' = data
     ELSE /\ pc' = "returned"
          /\ data' = Normalise(data, n)
  /\ UNCHANGED <<corpus, fn, damping_factor, n, page, i, distribution,
                 filename, previous_value, change, passes, prev, first>>

CallIterate ==
  /\ pc = "idle"
  /\ fn' = "iterate_pagerank"
  /\ \E d \in Dampings : damping_factor' = d
  /\ data' = [f \in DOMAIN corpus |-> Scale \div NumPages(corpus)]
  /\ prev' = data'
  /\ change' = Scale
  /\ passes' = 0
  /\ pc' = "loop"
  /\ UNCHANGED <<corpus, n, page, i, distribution, filename,
                 previous_value, first>>

IterPass ==
  /\ fn = "iterate_pagerank"
  /\ pc = "loop"
  /\ Continue(change)
  /\ passes < MaxPasses
  /\ IF NumPages(data) = 0
     THEN /\ pc' = "ValueError"
          /\ UNCHANGED <<filename, previous_value, data, prev, change, passes>>
     ELSE /\ \E file \in DOMAIN data : filename' = file
          /\ previous_value' = data[filename']
          /\ data' = Pass(corpus, damping_factor, data)
          /\ prev' = data
          /\ change' = data'[filename'] - previous_value'
          /\ passes' = passes + 1
          /\ pc' = pc
  /\ UNCHANGED <<corpus, fn, damping_factor, n, page, i, distribution, first>>

IterReturn ==
  /\ fn = "iterate_pagerank"
  /\ pc = "loop"
  /\ ~Continue(change)
  /\ pc' = "returned"
  /\ UNCHANGED <<corpus, fn, damping_factor, n, page, i, data, distribution,
                 filename, previous_value, change, passes, prev, first>>

(* a second call of iterate_pagerank on the same corpus and damping        *)
(* factor; first remembers what the first call returned                    *)
CallIterateAgain ==
  /\ fn = "iterate_pagerank"
  /\ pc = "returned"
  /\ first = None
  /\ first' = [passes |-> passes, data |-> data]
  /\ data' = [f \in DOMAIN corpus |-> Scale \div NumPages(corpus)]
  /\ prev' = data'
  /\ change' = Scale
  /\ passes' = 0
  /\ pc' = "loop"
  /\ UNCHANGED <<corpus, fn, damping_factor, n, page, i, distribution,
                 filename, previous_value>>

Next ==
  \/ CallTransitionModel
  \/ CallSample
  \/ SampleStep
  \/ SampleReturn
  \/ CallIterate
  \/ IterPass
  \/ IterReturn

Spec == Init /\ [][Next]_vars

NextRerun ==
  \/ CallIterate
  \/ IterPass
  \/ IterReturn
  \/ CallIterateAgain

SpecRerun == Init /\ [][NextRerun]_vars

(* the interpreter runs one thread and always takes its next step *)
SpecFair == Init /\ [][Next]_vars /\ WF_vars(Next)

(* ---- properties ---- *)
ValidDamping == damping_factor > 0 /\ damping_factor < 100
N == NumPages(corpus)
IterateReturned == fn = "iterate_pagerank" /\ pc = "returned"
Tolerance == Scale \div 1000
Rounding == Scale \div 100000

(* C1: for a non-empty corpus and a damping factor in (0,1), the vector    *)
(* iterate_pagerank returns sums to 1 within 1e-3 and every value lies in  *)
(* [0,1].                                                                  *)
IterateSumsToOne ==
  (IterateReturned /\ N >= 1 /\ ValidDamping) =>
     /\ Abs(Total(data) - Scale) <= Tolerance
     /\ \A f \in DOMAIN data : data[f] >= 0 /\ data[f] <= Scale

(* the relaxation formula of the specification, read from the snapshot r:  *)
(* (1-d)/N + d * sum over q linking to p of r(q)/|out-links(q)|            *)
(*         + d * sum over dangling q of r(q)/N                             *)
DanglingRank(c, d, r, p) ==
  LET linking == {q \in DOMAIN c : p \in c[q]}
      dangling == {q \in DOMAIN c : c[q] = {}}
      linked == SumOver([q \in DOMAIN c |->
                           IF c[q] = {} THEN 0 ELSE r[q] \div Cardinality(c[q])],
                        linking)
      stuck == SumOver([q \in DOMAIN c |-> r[q] \div NumPages(c)], dangling)
  IN  (Scale - Fx(d)) \div NumPages(c) + (d * linked) \div 100 + (d * stuck) \div 100

(* C2: after every pass the rank of each page p is (1-d)/N + d * (sum over *)
(* the pages q linking to p of rank(q)/|out-links(q)|) + d * (sum over the *)
(* dangling pages q of rank(q)/N), the ranks being those before the pass.  *)
PassUsesDanglingFormula ==
  (fn = "iterate_pagerank" /\ passes >= 1 /\ N >= 1 /\ ValidDamping) =>
     \A p \in DOMAIN data :
        Abs(data[p] - DanglingRank(corpus, damping_factor, prev, p)) <= Rounding

(* C3: transition_model returns, for every page q, 1/N when the page has   *)
(* no out-links, else d/|L| + (1-d)/N for q in L and (1-d)/N for q not in  *)
(* L.                                                                      *)
TransitionValues ==
  (fn = "transition_model" /\ pc = "returned") =>
     \A q \in DOMAIN corpus :
        LET L == corpus[page]
            expected ==
              IF Cardinality(L) = 0 THEN Scale \div N
              ELSE IF q \in L
                   THEN (damping_factor * Scale) \div (100 * Cardinality(L))
                        + ((100 - damping_factor) * Scale) \div (100 * N)
                   ELSE ((100 - damping_factor) * Scale) \div (100 * N)
        IN  q \in DOMAIN distribution /\ distribution[q] = expected

TransitionValuesWitness ==
  /\ fn = "transition_model"
  /\ pc = "returned"
  /\ N = MaxPages
  /\ corpus[page] # {}
  /\ \E q \in DOMAIN corpus : q # page /\ q \notin corpus[page]
  /\ \E q \in DOMAIN corpus : corpus[q] = {}

(* C4: for a damping factor in (0,1) the distribution transition_model     *)
(* returns is defined for every page of the corpus, has only non-negative  *)
(* values and sums to 1.                                                   *)
TransitionIsDistribution ==
  (fn = "transition_model" /\ pc = "returned" /\ ValidDamping) =>
     /\ DOMAIN distribution = DOMAIN corpus
     /\ \A q \in DOMAIN distribution : distribution[q] >= 0
     /\ Total(distribution) = Scale

TransitionIsDistributionWitness ==
  /\ fn = "transition_model"
  /\ pc = "returned"
  /\ ValidDamping
  /\ N >= 2
  /\ corpus[page] = {}
  /\ \A q \in DOMAIN corpus : page \notin corpus[q]

(* C5: sample_pagerank tallies one page per loop iteration, the page drawn *)
(* from the transition distribution of the current page, and never the     *)
(* seed page: the counters sum to the number of iterations done, to n when *)
(* the loop ends, and the returned values sum to 1.                        *)
SampleTalliesExactlyN ==
  /\ [](fn = "sample_pagerank" /\ pc = "loop" => Total(data) = i)
  /\ [](fn = "sample_pagerank" /\ pc = "returned" /\ n >= 1 =>
          i = n /\ Total(data) = Scale)
  /\ [][(fn = "sample_pagerank" /\ pc = "loop" /\ i' = i + 1) =>
          /\ transition_model(corpus, page, damping_factor)[page'] > 0
          /\ data'[page'] = data[page'] + 1
          /\ \A f \in DOMAIN data : f # page' => data'[f] = data[f]]_vars

SampleTalliesExactlyNWitness ==
  /\ fn = "sample_pagerank"
  /\ pc = "returned"
  /\ n = MaxSamples
  /\ N >= 2
  /\ ValidDamping
  /\ \E f \in DOMAIN data : data[f] = 0

InvalidInput ==
  \/ N = 0
  \/ fn = "sample_pagerank" /\ n < 1
  \/ ~ValidDamping

(* C6: sample_pagerank and iterate_pagerank called with an empty corpus,   *)
(* with n < 1 or with a damping factor outside (0,1) end in the            *)
(* InvalidInput error before any estimation step and never return a rank   *)
(* vector.                                                                 *)
InvalidInputRejected ==
  (fn \in {"sample_pagerank", "iterate_pagerank"} /\ InvalidInput) =>
     pc = "InvalidInput"

(* C7: two runs of iterate_pagerank on the same corpus and damping factor  *)
(* perform the same number of passes and return the same vector.           *)
IterateDeterministic ==
  (IterateReturned /\ first # None) =>
     first = [passes |-> passes, data |-> data]

(* C8: iterate_pagerank returns only after a pass in which no page changed *)
(* by more than 0.001.                                                     *)
ReturnsOnlyWhenAllConverged ==
  (IterateReturned /\ N >= 1 /\ ValidDamping) =>
     /\ passes >= 1
     /\ \A f \in DOMAIN data : Abs(data[f] - prev[f]) <= Tolerance

(* C9: within a pass every new rank is computed from the ranks of the      *)
(* previous pass only, so the pass does not depend on the visiting order.  *)
PassReadsSnapshot ==
  (fn = "iterate_pagerank" /\ passes >= 1 /\ N >= 1 /\ ValidDamping) =>
     data = [p \in DOMAIN corpus |-> NewRank(corpus, damping_factor, prev, p)]

(* C10: for a non-empty corpus and a damping factor in (0,1)               *)
(* iterate_pagerank eventually returns, whichever page each pass picks for *)
(* the convergence check; sample_pagerank returns after exactly n loop     *)
(* iterations.                                                             *)
EstimatorsTerminate ==
  /\ (fn = "iterate_pagerank" /\ pc = "loop" /\ N >= 1 /\ ValidDamping)
        ~> (fn = "iterate_pagerank" /\ pc = "returned")
  /\ (fn = "sample_pagerank" /\ pc = "loop" /\ n >= 1)
        ~> (fn = "sample_pagerank" /\ pc = "returned" /\ i = n)

EstimatorsTerminateWitness ==
  /\ IterateReturned
  /\ N = MaxPages
  /\ damping_factor = DAMPING
  /\ passes >= 10
  /\ \E f \in DOMAIN data : Abs(data[f] - prev[f]) > Threshold

====
